---- MODULE Spec2Model ----
(***************************************************************************)
(* Kanban backend (Andrey79999/kanban): Board Service and File Service.    *)
(*                                                                         *)
(* Several specifications over one set of variables:                       *)
(*   SpecWS, SpecLock, SpecPersonal  the WebSocketManager called directly, *)
(*           its calls interleaved at their await points;                  *)
(*   Spec, SpecPut, SpecList  the Task HTTP API, each handler run to       *)
(*           completion inside its own database session, with the /ws      *)
(*           endpoint that registers and deregisters clients;              *)
(*   SpecPatch, SpecCommit, SpecEndpoint, SpecSession  PATCH requests, a   *)
(*           request and its commit, the /ws handler and get_db followed   *)
(*           step by step;                                                 *)
(*   SpecUpload, SpecFiles, SpecStore, SpecBulk  File Service: its routes  *)
(*           one request at a time, S3Service.delete_file by itself, and   *)
(*           the bulk deletion followed step by step.                      *)
(***************************************************************************)
EXTENDS Integers, Sequences, FiniteSets, TLC

\* ------------------------------------------------------------- bounds
\* ids the tasks_id_seq sequence hands out, and readings of the server clock
MaxTasks == 2
MaxClock == 1
\* tasks created before GET /tasks is asked
MaxListed == 3
\* tasks created while PATCH requests are followed step by step
MaxPatched == 1
\* uploads that reach _generate_file_key
MaxFiles == 2

\* ------------------------------------------------------------- value sets
\* WebSocket objects and client identifiers
Conns == {"w1", "w2"}
ClientIds == {"a", "b"}

\* what `await connection.send_json(message)` can do: return, or raise one of
\* the two exception types the manager names, or raise anything else
SendOutcomes == {"ok", "WebSocketDisconnect", "RuntimeError", "OtherError"}
\* the same for the handlers of the Task API; the two exception types
\* broadcast catches take one branch, and the API specifications draw one of them
ApiSendOutcomes == {"ok", "WebSocketDisconnect", "OtherError"}

\* TaskStatus
Statuses == {"todo", "in_progress", "done"}

\* a key that is not in a JSON body, and JSON null / Python None / SQL NULL
Absent == "<absent>"
Null == "<null>"

\* how the DELETE to File Service made by _delete_task_files can end
CleanupOutcomes == {"ok", "connect_error", "timeout", "http_error"}

VARIABLES
    active_connections,   \* WebSocketManager.active_connections : set of WebSocket
    connection_ids,       \* WebSocketManager.connection_ids : dict, kept in insertion order
    bc,                   \* the broadcast call in flight (SpecWS)
    tasks,                \* the committed rows of table tasks : id -> row
    nextId,               \* the next value of the id sequence
    clock,                \* the last reading of datetime.utcnow
    last,                 \* the last request handled and what it answered
    gone,                 \* ids whose DELETE was answered 204
    inflight,             \* PATCH requests between two of their await points (SpecPatch)
    handlers,             \* the /ws handler of each WebSocket (SpecEndpoint)
    sessions,             \* the get_db generator of each request (SpecSession)
    files,                \* File Service: the committed rows of table files : id -> row
    fileSeq,              \* File Service: the next value of the files id sequence
    objects,              \* File Service: the keys of the objects in the bucket
    issued,               \* File Service: the keys _generate_file_key has returned, in order
    flast,                \* File Service: the last request handled and what it answered
    bulk,                 \* File Service: the DELETE /files/task/{t} in flight (SpecBulk)
    pm,                   \* the send_personal_message call in flight (SpecPersonal)
    txn                   \* the POST or DELETE /tasks request followed to its commit (SpecCommit)

wsVars == <<active_connections, connection_ids>>
dbVars == <<tasks, nextId, clock>>
apiVars == <<tasks, nextId, clock, last, gone>>
\* the state of the specifications that follow the first two
fileVars == <<files, fileSeq, objects, issued, flast, bulk>>
laterVars == <<pm, txn>>
restVars == <<inflight, handlers, sessions, fileVars, laterVars>>
vars == <<active_connections, connection_ids, bc, tasks, nextId, clock, last, gone, restVars>>

\* ------------------------------------------------------------- helpers
Range(s) == {s[i] : i \in 1..Len(s)}

\* every ordering of a finite set, as sequences without repetition
Orderings(S) ==
    {s \in [1..Cardinality(S) -> S] : \A i, j \in 1..Cardinality(S) : s[i] = s[j] => i = j}

\* ------------------------------------------------------------- dict (connection_ids)
\* A Python dict as the sequence of its items in insertion order.
DictKeys(d) == {d[i].cid : i \in 1..Len(d)}
DictValues(d) == {d[i].ws : i \in 1..Len(d)}

\* d[cid] = ws : an existing key keeps its position, a new key is appended
DictSet(d, cid, ws) ==
    IF cid \in DictKeys(d)
    THEN [i \in 1..Len(d) |-> IF d[i].cid = cid THEN [cid |-> cid, ws |-> ws] ELSE d[i]]
    ELSE Append(d, [cid |-> cid, ws |-> ws])

\* d.pop(cid, None)
DictPop(d, cid) == SelectSeq(d, LAMBDA it : it.cid # cid)

\* ------------------------------------------------------------- WebSocketManager
\* len(self.active_connections)
connection_count == Cardinality(active_connections)

\* the cleanup loop body of broadcast for one failed connection: discard it from
\* the set, pop the first item of connection_ids whose value is it, then break
PurgeOne(st, conn) ==
    LET hits == {i \in 1..Len(st.ids) : st.ids[i].ws = conn}
        first == CHOOSE i \in hits : \A j \in hits : i <= j
    IN [active |-> st.active \ {conn},
        ids |-> IF hits = {} THEN st.ids ELSE DictPop(st.ids, st.ids[first].cid)]

RECURSIVE Purge(_, _)
Purge(st, disconnected) ==
    IF disconnected = <<>> THEN st
    ELSE Purge(PurgeOne(st, Head(disconnected)), Tail(disconnected))

\* a broadcast loop that gives up at the first failed send
SendStep_break(b, o) ==
    LET conn == Head(b.todo)
    IN [b EXCEPT
          !.todo = IF o = "ok" THEN Tail(b.todo) ELSE <<>>,
          !.attempted = Append(b.attempted, [ws |-> conn, outcome |-> o]),
          !.disconnected = IF o \in {"WebSocketDisconnect", "RuntimeError"}
                           THEN Append(b.disconnected, conn) ELSE b.disconnected,
          !.pc = IF o = "OtherError" THEN "raised" ELSE b.pc]

\* one iteration of `for connection in self.active_connections.copy()`:
\* try send_json; WebSocketDisconnect and RuntimeError are caught and the
\* connection remembered; any other exception leaves the loop and the call
SendStep(b, o) ==
    LET conn == Head(b.todo)
    IN [b EXCEPT
          !.todo = Tail(b.todo),
          !.attempted = Append(b.attempted, [ws |-> conn, outcome |-> o]),
          !.disconnected = IF o \in {"WebSocketDisconnect", "RuntimeError"}
                           THEN Append(b.disconnected, conn) ELSE b.disconnected,
          !.pc = IF o = "OtherError" THEN "raised" ELSE b.pc]

\* datetime.isoformat(): the text of an instant
isoformat(t) == <<"iso", t>>

\* the dictionaries handed to broadcast when the manager is called directly
Messages ==
    {[type |-> "ping"],
     [type |-> "ping", timestamp |-> isoformat(7)],
     [type |-> "task_deleted", data |-> "1"]}

\* a broadcast that stamps every message
WithTimestamp_always(message, t) ==
    [k \in DOMAIN message \cup {"timestamp"} |->
        IF k = "timestamp" THEN isoformat(t) ELSE message[k]]

\* broadcast, lines 62-64: the caller's dictionary after
\* `if "timestamp" not in message: message["timestamp"] = utcnow().isoformat()`
WithTimestamp(message, t) ==
    IF "timestamp" \in DOMAIN message THEN message
    ELSE [k \in DOMAIN message \cup {"timestamp"} |->
            IF k = "timestamp" THEN isoformat(t) ELSE message[k]]

\* no broadcast called yet; given is the dictionary as the caller built it,
\* before the registry when the call began, removed the connections that
\* disconnect calls named since
NoBroadcast ==
    [pc |-> "idle", snapshot |-> {}, todo |-> <<>>, attempted |-> <<>>, disconnected |-> <<>>,
     message |-> [type |-> "none"], given |-> [type |-> "none"],
     before |-> [active |-> {}, ids |-> <<>>], removed |-> {}]

\* connect(websocket, client_id): accept, then register in both structures
connect(ws, cid) ==
    /\ active_connections' = active_connections \cup {ws}
    /\ connection_ids' = DictSet(connection_ids, cid, ws)

\* disconnect(websocket, client_id)
disconnect(ws, cid) ==
    /\ active_connections' = active_connections \ {ws}
    /\ connection_ids' = DictPop(connection_ids, cid)

\* broadcast, up to the loop: the snapshot is taken; a set iterates in an
\* order the program does not control
broadcast_begin ==
    /\ bc.pc \in {"idle", "returned", "raised"}
    /\ \E order \in Orderings(active_connections), message \in Messages :
         bc' = [pc |-> "sending", snapshot |-> active_connections, todo |-> order,
                attempted |-> <<>>, disconnected |-> <<>>,
                message |-> WithTimestamp(message, clock), given |-> message,
                before |-> [active |-> active_connections, ids |-> connection_ids],
                removed |-> {}]
    /\ UNCHANGED wsVars

\* broadcast, one send_json (an await point)
broadcast_send ==
    /\ bc.pc = "sending"
    /\ bc.todo # <<>>
    /\ \E o \in SendOutcomes : bc' = SendStep(bc, o)
    /\ UNCHANGED wsVars

\* broadcast, after the loop: purge the failed connections under the lock, return
broadcast_end ==
    /\ bc.pc = "sending"
    /\ bc.todo = <<>>
    /\ LET st == Purge([active |-> active_connections, ids |-> connection_ids],
                       bc.disconnected)
       IN /\ active_connections' = st.active
          /\ connection_ids' = st.ids
    /\ bc' = [bc EXCEPT !.pc = "returned"]

\* ------------------------------------------------------------- self._lock
\* a broadcast that takes the lock for the whole call
broadcast_lock_whole_call(b) == IF b.pc \in {"sending", "purging"} THEN "broadcast" ELSE Null

\* who holds self._lock: connect and disconnect take and release it without
\* an await in between, broadcast takes it after its loop, when a send
\* failed, and holds it over the cleanup
broadcast_lock(b) == IF b.pc = "purging" THEN "broadcast" ELSE Null

\* connect and disconnect: `async with self._lock` waits while it is held
locked_connect(ws, cid) ==
    /\ broadcast_lock(bc) = Null
    /\ connect(ws, cid)
    /\ UNCHANGED bc

locked_disconnect(ws, cid) ==
    /\ broadcast_lock(bc) = Null
    /\ disconnect(ws, cid)
    /\ UNCHANGED bc

\* broadcast after its loop, `if disconnected: async with self._lock`
broadcast_acquire ==
    /\ bc.pc = "sending"
    /\ bc.todo = <<>>
    /\ bc' = [bc EXCEPT !.pc = IF bc.disconnected = <<>> THEN "returned" ELSE "purging"]
    /\ UNCHANGED wsVars

\* the cleanup under the lock, and the return that releases it
broadcast_purge ==
    /\ bc.pc = "purging"
    /\ LET st == Purge([active |-> active_connections, ids |-> connection_ids],
                       bc.disconnected)
       IN /\ active_connections' = st.active
          /\ connection_ids' = st.ids
    /\ bc' = [bc EXCEPT !.pc = "returned"]

\* ------------------------------------------------------------- schemas
\* TaskCreate: title required with 1..200 characters, description defaults to
\* None, status defaults to todo and is never None
TaskCreate(json) ==
    [valid |-> json.title \notin {Absent, Null, ""} /\ json.status \in Statuses \cup {Absent},
     title |-> json.title,
     description |-> IF json.description = Absent THEN Null ELSE json.description,
     status |-> IF json.status = Absent THEN "todo" ELSE json.status]

\* TaskUpdate: every field Optional with default None; a title that is a
\* string has 1..200 characters
TaskUpdate(json) ==
    [valid |-> json.title # "" /\ json.status \in Statuses \cup {Absent, Null},
     title |-> IF json.title = Absent THEN Null ELSE json.title,
     description |-> IF json.description = Absent THEN Null ELSE json.description,
     status |-> IF json.status = Absent THEN Null ELSE json.status]

\* TaskStatusUpdate: status required
TaskStatusUpdate(json) ==
    [valid |-> json.status \in Statuses, status |-> json.status]

\* TaskResponse.model_validate(task)
TaskResponse(task) ==
    [id |-> task.id, title |-> task.title, description |-> task.description,
     status |-> task.status, created_at |-> task.created_at,
     updated_at |-> task.updated_at, files_count |-> 0]

\* the task_dict the handlers build for the events; isoformat() renders each
\* timestamp as a string, one string per instant, and the model keeps the instant
task_dict(task) ==
    [id |-> task.id, title |-> task.title, description |-> task.description,
     status |-> task.status, created_at |-> task.created_at,
     updated_at |-> task.updated_at]

NoBody == [id |-> 0]

NoRequest ==
    [op |-> "none", id |-> 0, req |-> <<>>, code |-> 0, body |-> NoBody,
     cleanup |-> "none", events |-> <<>>]

\* ------------------------------------------------------------- session
\* get_db: commit when the handler returns, rollback when it raises
get_db(rows, flushed, raised) == IF raised THEN rows ELSE flushed

\* Task(...) inserted by TaskRepository.create: the column defaults read the
\* clock for created_at and then for updated_at
Task(id, data, t1, t2) ==
    [id |-> id, title |-> data.title, description |-> data.description,
     status |-> data.status, created_at |-> t1, updated_at |-> t2]

\* TaskRepository.update: the flush writes the row, and onupdate reads the
\* clock for updated_at, when an attribute has a new value
Flush(old, new, t) ==
    IF new = old THEN old ELSE [new EXCEPT !.updated_at = t]

\* TaskRepository.delete
DeleteRow(rows, id) == [i \in DOMAIN rows \ {id} |-> rows[i]]

\* ------------------------------------------------------------- broadcast, run to its end
RECURSIVE RunSends(_, _)
RunSends(b, outcome) ==
    IF b.pc # "sending" \/ b.todo = <<>> THEN b
    ELSE RunSends(SendStep(b, outcome[Head(b.todo)]), outcome)

\* broadcast(message) called from a handler, no other coroutine running between
\* its sends: order is the iteration order of the snapshot, outcome what each
\* send_json does
broadcast(message, order, outcome) ==
    LET b == RunSends([pc |-> "sending", snapshot |-> active_connections, todo |-> order,
                       attempted |-> <<>>, disconnected |-> <<>>], outcome)
        st == IF b.pc = "raised"
              THEN [active |-> active_connections, ids |-> connection_ids]
              ELSE Purge([active |-> active_connections, ids |-> connection_ids],
                         b.disconnected)
    IN [raised |-> b.pc = "raised",
        event |-> [message |-> message, to |-> [i \in 1..Len(b.attempted) |-> b.attempted[i].ws]],
        active |-> st.active, ids |-> st.ids]

broadcast_task_created(task_data, order, outcome) ==
    broadcast([type |-> "task_created", data |-> task_data], order, outcome)

broadcast_task_updated(task_data, order, outcome) ==
    broadcast([type |-> "task_updated", data |-> task_data], order, outcome)

broadcast_task_deleted(task_id, order, outcome) ==
    broadcast([type |-> "task_deleted", data |-> [task_id |-> task_id]], order, outcome)

broadcast_task_status_changed(task_id, old_status, new_status, order, outcome) ==
    broadcast([type |-> "task_status_changed",
               data |-> [task_id |-> task_id, old_status |-> old_status,
                         new_status |-> new_status]], order, outcome)

\* what a handler leaves behind: the answer, the committed rows, the registry
Answer(op, id, req, code, body, cleanup, events, rows, active, ids) ==
    /\ last' = [op |-> op, id |-> id, req |-> req, code |-> code, body |-> body,
                cleanup |-> cleanup, events |-> events]
    /\ tasks' = rows
    /\ active_connections' = active
    /\ connection_ids' = ids
    /\ gone' = IF op = "DELETE" /\ code = 204 THEN gone \cup {id} ELSE gone
    /\ UNCHANGED bc

\* a request answered before any broadcast: 404, 422
AnswerOnly(op, id, req, code, body) ==
    Answer(op, id, req, code, body, "none", <<>>, tasks, active_connections, connection_ids)

\* a request whose handler ran to its broadcast b: the handler's exception, if
\* any, is answered 500 by global_exception_handler after get_db rolled back
AnswerAfter(op, id, req, code, task, cleanup, b, flushed) ==
    Answer(op, id, req, IF b.raised THEN 500 ELSE code,
           IF b.raised \/ code = 204 THEN NoBody ELSE TaskResponse(task),
           cleanup, <<b.event>>, get_db(tasks, flushed, b.raised), b.active, b.ids)

\* ------------------------------------------------------------- Task HTTP API
\* POST /tasks; the clock reads at most upTo while the request is handled
create_task(json, upTo) ==
    LET task_data == TaskCreate(json)
    IN IF ~task_data.valid
       THEN AnswerOnly("POST", 0, json, 422, NoBody) /\ UNCHANGED <<nextId, clock>>
       ELSE \E t1 \in clock..upTo : \E t2 \in t1..upTo :
            \E order \in Orderings(active_connections) :
            \E outcome \in [active_connections -> ApiSendOutcomes] :
              LET task == Task(nextId, task_data, t1, t2)
                  b == broadcast_task_created(task_dict(task), order, outcome)
              IN /\ nextId' = nextId + 1
                 /\ clock' = t2
                 /\ AnswerAfter("POST", task.id, json, 201, task, "none", b,
                                tasks @@ (task.id :> task))

\* GET /tasks/{task_id}
get_task(task_id) ==
    /\ IF task_id \in DOMAIN tasks
       THEN AnswerOnly("GET", task_id, <<>>, 200, TaskResponse(tasks[task_id]))
       ELSE AnswerOnly("GET", task_id, <<>>, 404, NoBody)
    /\ UNCHANGED <<nextId, clock>>

\* TaskService._delete_task_files: whatever the call to File Service does is
\* caught and printed
delete_task_files(outcome) == [called |-> outcome, raised |-> FALSE]

\* a delete_task without the early return for a task that is not stored
TaskService_delete_task_unchecked(rows, task_id, outcome) ==
    LET f == delete_task_files(outcome)
    IN [deleted |-> TRUE, raised |-> FALSE, cleanup |-> f.called,
        rows |-> DeleteRow(rows, task_id)]

\* TaskService.delete_task
TaskService_delete_task(rows, task_id, outcome) ==
    IF task_id \notin DOMAIN rows
    THEN [deleted |-> FALSE, raised |-> FALSE, cleanup |-> "none", rows |-> rows]
    ELSE LET f == delete_task_files(outcome)
         IN IF f.raised
            THEN [deleted |-> FALSE, raised |-> TRUE, cleanup |-> f.called, rows |-> rows]
            ELSE [deleted |-> TRUE, raised |-> FALSE, cleanup |-> f.called,
                  rows |-> DeleteRow(rows, task_id)]

\* DELETE /tasks/{task_id}
delete_task(task_id) ==
    /\ \E cleanup \in IF task_id \in DOMAIN tasks THEN CleanupOutcomes ELSE {"none"} :
       LET r == TaskService_delete_task(tasks, task_id, cleanup)
       IN IF r.raised
          THEN Answer("DELETE", task_id, <<>>, 500, NoBody, r.cleanup, <<>>,
                      tasks, active_connections, connection_ids)
          ELSE IF ~r.deleted
          THEN AnswerOnly("DELETE", task_id, <<>>, 404, NoBody)
          ELSE \E order \in Orderings(active_connections) :
               \E outcome \in [active_connections -> ApiSendOutcomes] :
                 AnswerAfter("DELETE", task_id, <<>>, 204, NoBody, r.cleanup,
                             broadcast_task_deleted(task_id, order, outcome), r.rows)
    /\ UNCHANGED <<nextId, clock>>

\* /ws: the endpoint registers the socket under a client id it generates
\* (uuid4, so no other connection has it) ...
websocket_endpoint_connect(ws) ==
    /\ ws \notin active_connections
    /\ connect(ws, ws)
    /\ last' = [NoRequest EXCEPT !.op = "WS"]
    /\ UNCHANGED <<bc, tasks, nextId, clock, gone>>

\* ... and deregisters it when receive_text or send_json raises
websocket_endpoint_disconnect(ws) ==
    /\ disconnect(ws, ws)
    /\ last' = [NoRequest EXCEPT !.op = "WS"]
    /\ UNCHANGED <<bc, tasks, nextId, clock, gone>>

\* an update_task that assigns every field of the request, None included
TaskService_update_task_overwrite(task, task_data) ==
    [task EXCEPT
       !.title = task_data.title,
       !.description = task_data.description,
       !.status = task_data.status]

\* an update_task that tests the fields for truth, not for None
TaskService_update_task_truthy(task, task_data) ==
    [task EXCEPT
       !.title = IF task_data.title \notin {Null, ""} THEN task_data.title ELSE @,
       !.description = IF task_data.description \notin {Null, ""}
                       THEN task_data.description ELSE @,
       !.status = IF task_data.status # Null THEN task_data.status ELSE @]

\* TaskService.update_task, lines 111-117: a field of the request that is not
\* None replaces the attribute
TaskService_update_task(task, task_data) ==
    [task EXCEPT
       !.title = IF task_data.title # Null THEN task_data.title ELSE @,
       !.description = IF task_data.description # Null THEN task_data.description ELSE @,
       !.status = IF task_data.status # Null THEN task_data.status ELSE @]

\* PUT /tasks/{task_id}
update_task(task_id, json, upTo) ==
    LET task_data == TaskUpdate(json)
    IN IF ~task_data.valid
       THEN AnswerOnly("PUT", task_id, json, 422, NoBody) /\ UNCHANGED <<nextId, clock>>
       ELSE IF task_id \notin DOMAIN tasks
       THEN AnswerOnly("PUT", task_id, json, 404, NoBody) /\ UNCHANGED <<nextId, clock>>
       ELSE \E t \in clock..upTo :
            \E order \in Orderings(active_connections) :
            \E outcome \in [active_connections -> ApiSendOutcomes] :
              LET set == TaskService_update_task(tasks[task_id], task_data)
                  task == Flush(tasks[task_id], set, t)
                  b == broadcast_task_updated(task_dict(task), order, outcome)
              IN /\ clock' = IF set = tasks[task_id] THEN clock ELSE t
                 /\ AnswerAfter("PUT", task_id, json, 200, task, "none", b,
                                [tasks EXCEPT ![task_id] = task])
                 /\ UNCHANGED nextId

\* TaskService.update_task_status, line 139
TaskService_update_task_status(task, new_status) == [task EXCEPT !.status = new_status]

\* PATCH /tasks/{task_id}/status
update_task_status(task_id, json, upTo) ==
    LET status_data == TaskStatusUpdate(json)
    IN IF ~status_data.valid
       THEN AnswerOnly("PATCH", task_id, json, 422, NoBody) /\ UNCHANGED <<nextId, clock>>
       ELSE IF task_id \notin DOMAIN tasks
       THEN AnswerOnly("PATCH", task_id, json, 404, NoBody) /\ UNCHANGED <<nextId, clock>>
       ELSE \E t \in clock..upTo :
            \E order \in Orderings(active_connections) :
            \E outcome \in [active_connections -> ApiSendOutcomes] :
              LET old_status == tasks[task_id].status
                  set == TaskService_update_task_status(tasks[task_id], status_data.status)
                  task == Flush(tasks[task_id], set, t)
                  b == broadcast_task_status_changed(task_id, old_status,
                                                     status_data.status, order, outcome)
              IN /\ clock' = IF set = tasks[task_id] THEN clock ELSE t
                 /\ AnswerAfter("PATCH", task_id, json, 200, task, "none", b,
                                [tasks EXCEPT ![task_id] = task])
                 /\ UNCHANGED nextId

\* ------------------------------------------------------------- GET /tasks
\* the rows a query with this WHERE clause ranges over
Matching(rows, status) == {i \in DOMAIN rows : status = Null \/ rows[i].status = status}

\* ORDER BY created_at DESC: the orders a database may return ids in (rows
\* with equal created_at come in either order)
OrderByCreatedDesc(rows, ids) ==
    {s \in Orderings(ids) :
        \A i, j \in 1..Len(s) : i < j => rows[s[i]].created_at >= rows[s[j]].created_at}

\* OFFSET skip LIMIT limit of a result
Window(s, skip, limit) ==
    [i \in 1..(IF Len(s) - skip < limit THEN (IF Len(s) > skip THEN Len(s) - skip ELSE 0)
               ELSE limit) |-> s[skip + i]]

\* a get_all that cuts the window out of the rows in id order and sorts what
\* is left
get_all_window_first(rows, status, skip, limit) ==
    LET ids == Matching(rows, status)
        byId == CHOOSE s \in Orderings(ids) : \A i, j \in 1..Len(s) : i < j => s[i] < s[j]
    IN OrderByCreatedDesc(rows, Range(Window(byId, skip, limit)))

\* TaskRepository.get_all: select, where, offset, limit, order_by build one
\* SELECT ... WHERE ... ORDER BY ... LIMIT ... OFFSET ...; the result is a
\* window of the ordered rows
get_all(rows, status, skip, limit) ==
    {Window(s, skip, limit) : s \in OrderByCreatedDesc(rows, Matching(rows, status))}

\* TaskRepository.count
count(rows, status) == Cardinality(Matching(rows, status))

\* GET /tasks?status=&skip=&limit=
get_tasks(status, skip, limit) ==
    /\ \E found \in get_all(tasks, status, skip, limit) :
         AnswerOnly("LIST", 0, [status |-> status, skip |-> skip, limit |-> limit], 200,
                    [tasks |-> [i \in 1..Len(found) |-> TaskResponse(tasks[found[i]])],
                     total |-> count(tasks, status)])
    /\ UNCHANGED <<nextId, clock>>

\* ------------------------------------------------------------- PATCH, await by await
\* the requests that can be in flight at once
Requests == {"r1", "r2"}

\* what send_json does in the specifications that follow requests step by step
StepSendOutcomes == {"ok", "WebSocketDisconnect"}

\* a request that is not being handled; None for the task the service returned
NoPatch ==
    [pc |-> "idle", task_id |-> 0, status |-> Null, old_status |-> Null, loaded |-> NoBody,
     locked |-> FALSE, task |-> NoBody, before |-> Null, events |-> <<>>]

\* the row lock an UPDATE takes until its transaction ends
Locked(task_id) ==
    \E r \in Requests : inflight[r].locked /\ inflight[r].task_id = task_id

\* the request ends: the answer goes out, get_db commits or rolls back
Finish(r, code, body, rows) ==
    /\ Answer("PATCH", inflight[r].task_id, [status |-> inflight[r].status], code, body,
              "none", inflight[r].events, rows, active_connections, connection_ids)
    /\ inflight' = [inflight EXCEPT ![r] = NoPatch]
    /\ UNCHANGED <<nextId, clock, handlers, sessions, fileVars, laterVars>>

\* api/tasks.py 210-218: service.get_task reads the row in the request's
\* session; 404 when there is none, else old_status is taken from it
patch_get_task(r, task_id, json) ==
    LET status_data == TaskStatusUpdate(json)
    IN /\ inflight[r].pc = "idle"
       /\ status_data.valid
       /\ IF task_id \notin DOMAIN tasks
          THEN AnswerOnly("PATCH", task_id, json, 404, NoBody) /\ UNCHANGED inflight
          ELSE /\ inflight' = [inflight EXCEPT ![r] =
                                 [NoPatch EXCEPT !.pc = "get_by_id", !.task_id = task_id,
                                                 !.status = status_data.status,
                                                 !.loaded = tasks[task_id],
                                                 !.old_status = tasks[task_id].status]]
               /\ UNCHANGED <<active_connections, connection_ids, bc, tasks, last, gone>>
       /\ UNCHANGED <<nextId, clock, handlers, sessions, fileVars, laterVars>>

\* task_service.py 135-139: get_by_id selects the row again; no row gives
\* None, a row gives the object the session already holds, its attributes as
\* first loaded, and task.status is assigned
patch_get_by_id(r) ==
    /\ inflight[r].pc = "get_by_id"
    /\ inflight' = [inflight EXCEPT ![r].pc =
                      IF inflight[r].task_id \in DOMAIN tasks THEN "update" ELSE "broadcast"]
    /\ UNCHANGED <<active_connections, connection_ids, bc, tasks, nextId, clock, last, gone,
                   handlers, sessions, fileVars, laterVars>>

\* task_repository.py 135-137: flush emits UPDATE when the assigned status
\* differs from the loaded one (it waits for the row lock, and raises
\* StaleDataError when the row is gone), then refresh reads the row as this
\* transaction sees it (and raises when there is none)
patch_update(r) ==
    LET q == inflight[r]
        changed == q.status # q.loaded.status
    IN /\ q.pc = "update"
       /\ changed => ~Locked(q.task_id)
       /\ IF q.task_id \notin DOMAIN tasks
          THEN Finish(r, 500, NoBody, tasks)
          ELSE /\ inflight' = [inflight EXCEPT ![r] =
                    [q EXCEPT !.pc = "broadcast",
                              !.locked = changed,
                              !.before = tasks[q.task_id].status,
                              !.task = Flush(tasks[q.task_id],
                                             IF changed
                                             THEN TaskService_update_task_status(
                                                      tasks[q.task_id], q.status)
                                             ELSE tasks[q.task_id], clock)]]
               /\ UNCHANGED <<active_connections, connection_ids, bc, tasks, nextId, clock,
                              last, gone, handlers, sessions, fileVars, laterVars>>

\* api/tasks.py 223-228: the event is broadcast with old_status as read first
patch_broadcast(r) ==
    LET q == inflight[r]
    IN /\ q.pc = "broadcast"
       /\ \E order \in Orderings(active_connections) :
          \E outcome \in [active_connections -> StepSendOutcomes] :
            LET b == broadcast_task_status_changed(q.task_id, q.old_status, q.status,
                                                   order, outcome)
            IN /\ inflight' = [inflight EXCEPT ![r].pc = "return", ![r].events = <<b.event>>]
               /\ active_connections' = b.active
               /\ connection_ids' = b.ids
       /\ UNCHANGED <<bc, tasks, nextId, clock, last, gone, handlers, sessions, fileVars, laterVars>>

\* api/tasks.py 230: TaskResponse.model_validate(task) raises for None; when
\* it returns the answer is 200 and get_db commits the UPDATE, if there was one
patch_return(r) ==
    LET q == inflight[r]
    IN /\ q.pc = "return"
       /\ IF q.task = NoBody
          THEN Finish(r, 500, NoBody, tasks)
          ELSE Finish(r, 200, TaskResponse(q.task),
                      get_db(tasks, IF q.locked THEN [tasks EXCEPT ![q.task_id] = q.task]
                                    ELSE tasks, FALSE))

\* ------------------------------------------------------------- the /ws handler, await by await
\* no handler started for the WebSocket yet
NoHandler == [pc |-> "none", client_id |-> Null, propagated |-> FALSE]

\* what `await websocket.receive_text()` can do: return a text, or raise
ReceiveOutcomes == {"ping", "WebSocketDisconnect", "OtherError"}

\* the client ids of the mapping that name the connection
Entries(ids, ws) == {ids[i].cid : i \in {j \in 1..Len(ids) : ids[j].ws = ws}}

\* a handler with `except WebSocketDisconnect` alone
endpoint_except_narrow(ws, e) ==
    /\ IF e = "WebSocketDisconnect"
       THEN disconnect(ws, handlers[ws].client_id)
       ELSE UNCHANGED wsVars
    /\ handlers' = [handlers EXCEPT ![ws].pc = "ended",
                                    ![ws].propagated = e # "WebSocketDisconnect"]
    /\ bc' = bc

\* websocket.py 95-100: WebSocketDisconnect, and every other Exception, ends
\* the handler in ws_manager.disconnect(websocket, client_id)
endpoint_except(ws, e) ==
    /\ disconnect(ws, handlers[ws].client_id)
    /\ handlers' = [handlers EXCEPT ![ws].pc = "ended"]
    /\ bc' = IF bc.pc = "sending"
             THEN [bc EXCEPT !.removed =
                     @ \cup {ws} \cup {connection_ids[i].ws :
                                        i \in {j \in 1..Len(connection_ids) :
                                                 connection_ids[j].cid = handlers[ws].client_id}}]
             ELSE bc

\* websocket.py 65-70: the client id of the query string, or a fresh uuid4
\* (the WebSocket's own name stands for it), then ws_manager.connect
endpoint_connect(ws, client_id) ==
    /\ handlers[ws].pc = "none"
    /\ connect(ws, client_id)
    /\ handlers' = [handlers EXCEPT ![ws].pc = "welcome", ![ws].client_id = client_id]
    /\ UNCHANGED <<bc, apiVars, inflight, sessions, fileVars, laterVars>>

\* websocket.py 74-81: the welcome message
endpoint_welcome(ws) ==
    /\ handlers[ws].pc = "welcome"
    /\ \E o \in SendOutcomes :
         IF o = "ok"
         THEN handlers' = [handlers EXCEPT ![ws].pc = "receive"] /\ UNCHANGED <<wsVars, bc>>
         ELSE endpoint_except(ws, o)
    /\ UNCHANGED <<apiVars, inflight, sessions, fileVars, laterVars>>

\* websocket.py 84-89: wait for a text of the client
endpoint_receive(ws) ==
    /\ handlers[ws].pc = "receive"
    /\ \E data \in ReceiveOutcomes :
         IF data = "ping"
         THEN handlers' = [handlers EXCEPT ![ws].pc = "pong"] /\ UNCHANGED <<wsVars, bc>>
         ELSE endpoint_except(ws, data)
    /\ UNCHANGED <<apiVars, inflight, sessions, fileVars, laterVars>>

\* websocket.py 90-93: the answer to "ping"
endpoint_pong(ws) ==
    /\ handlers[ws].pc = "pong"
    /\ \E o \in SendOutcomes :
         IF o = "ok"
         THEN handlers' = [handlers EXCEPT ![ws].pc = "receive"] /\ UNCHANGED <<wsVars, bc>>
         ELSE endpoint_except(ws, o)
    /\ UNCHANGED <<apiVars, inflight, sessions, fileVars, laterVars>>

\* ------------------------------------------------------------- get_db, statement by statement
\* the requests whose sessions are followed
SessionIds == {"s1", "s2", "s3"}

\* how the request handler, and session.commit(), can end: normally, with an
\* exception that derives from Exception, or with one that does not
\* (asyncio.CancelledError)
HandlerOutcomes == {"return", "Exception", "CancelledError"}
CommitOutcomes == {"ok", "Exception", "CancelledError"}

\* a request that has not asked for its session yet; error is what the
\* handler or the commit raised, raising the exception on its way out of the
\* generator, propagated the one that left it
NoSession ==
    [pc |-> "none", open |-> FALSE, error |-> Null, raising |-> Null, committed |-> FALSE,
     rolled_back |-> FALSE, propagated |-> Null]

otherThanSessions ==
    <<active_connections, connection_ids, bc, tasks, nextId, clock, last, gone, inflight,
      handlers, fileVars, laterVars>>

\* database.py 54-56: async with AsyncSessionLocal() as session: yield session
get_db_enter(q) ==
    /\ sessions[q].pc = "none"
    /\ sessions' = [sessions EXCEPT ![q].pc = "yielded", ![q].open = TRUE]
    /\ UNCHANGED otherThanSessions

\* the handler ends: the generator is resumed after the yield, or the
\* handler's exception is thrown into it at the yield
get_db_resume(q) ==
    /\ sessions[q].pc = "yielded"
    /\ \E outcome \in HandlerOutcomes :
         sessions' = [sessions EXCEPT
            ![q].pc = CASE outcome = "return" -> "commit"
                        [] outcome = "Exception" -> "except"
                        [] outcome = "CancelledError" -> "finally",
            ![q].error = IF outcome = "return" THEN Null ELSE outcome,
            ![q].raising = IF outcome = "return" THEN Null ELSE outcome]
    /\ UNCHANGED otherThanSessions

\* database.py 57: await session.commit()
get_db_commit(q) ==
    /\ sessions[q].pc = "commit"
    /\ \E outcome \in CommitOutcomes :
         sessions' = [sessions EXCEPT
            ![q].pc = CASE outcome = "ok" -> "finally"
                        [] outcome = "Exception" -> "except"
                        [] outcome = "CancelledError" -> "finally",
            ![q].committed = outcome = "ok",
            ![q].error = IF outcome = "ok" THEN Null ELSE outcome,
            ![q].raising = IF outcome = "ok" THEN Null ELSE outcome]
    /\ UNCHANGED otherThanSessions

\* a get_db whose except clause rolls back and does not raise again
get_db_except_swallow(q) ==
    /\ sessions[q].pc = "except"
    /\ sessions' = [sessions EXCEPT ![q].pc = "finally", ![q].rolled_back = TRUE,
                                    ![q].raising = Null]
    /\ UNCHANGED otherThanSessions

\* database.py 58-60: except Exception: await session.rollback(); raise
get_db_except(q) ==
    /\ sessions[q].pc = "except"
    /\ sessions' = [sessions EXCEPT ![q].pc = "finally", ![q].rolled_back = TRUE]
    /\ UNCHANGED otherThanSessions

\* database.py 61-62 and the exit of the async with: session.close(), after
\* which the exception on its way, if any, leaves get_db
get_db_finally(q) ==
    /\ sessions[q].pc = "finally"
    /\ sessions' = [sessions EXCEPT ![q].pc = "ended", ![q].open = FALSE,
                                    ![q].propagated = sessions[q].raising]
    /\ UNCHANGED otherThanSessions

\* ------------------------------------------------------------- send_personal_message
\* d.get(cid): the value of the item with that key, None without one
DictGet(d, cid) ==
    IF cid \in DictKeys(d) THEN (CHOOSE it \in Range(d) : it.cid = cid).ws ELSE Null

\* no send_personal_message called yet; before is the registry when the call
\* looked the client up
NoPersonal ==
    [pc |-> "idle", client_id |-> Null, websocket |-> Null, outcome |-> "none",
     result |-> FALSE, before |-> [active |-> {}, ids |-> <<>>]]

\* send_personal_message up to its await: websocket = connection_ids.get(client_id);
\* without one the call returns False
personal_get(client_id) ==
    /\ pm.pc \in {"idle", "returned", "raised"}
    /\ LET websocket == DictGet(connection_ids, client_id)
       IN pm' = [pc |-> IF websocket = Null THEN "returned" ELSE "sending",
                 client_id |-> client_id, websocket |-> websocket, outcome |-> "none",
                 result |-> FALSE,
                 before |-> [active |-> active_connections, ids |-> connection_ids]]
    /\ UNCHANGED wsVars

\* the send_json and what follows it: True after a delivery; after
\* WebSocketDisconnect or RuntimeError disconnect(websocket, client_id) and
\* False; any other exception leaves the call
personal_send ==
    /\ pm.pc = "sending"
    /\ \E o \in SendOutcomes :
         /\ pm' = [pm EXCEPT !.outcome = o, !.result = (o = "ok"),
                             !.pc = IF o = "OtherError" THEN "raised" ELSE "returned"]
         /\ IF o \in {"WebSocketDisconnect", "RuntimeError"}
            THEN disconnect(pm.websocket, pm.client_id)
            ELSE UNCHANGED wsVars

\* ------------------------------------------------------------- a request and its commit
\* POST /tasks and DELETE /tasks/{id} followed from the handler's flush to the
\* commit get_db makes after the handler returned. rows is the table as the
\* request's session sees it after its flush, delivered the connections whose
\* send_json returned
NoTxn ==
    [pc |-> "idle", op |-> "none", id |-> 0, cleanup |-> "none", rows |-> <<>>,
     events |-> <<>>, delivered |-> {}, code |-> 0, rolled_back |-> FALSE]

commitRest == <<bc, inflight, handlers, sessions, fileVars, pm>>

\* create_task up to its broadcast: TaskRepository.create adds the row and
\* flushes, which draws the id from the sequence
txn_create(json) ==
    LET task_data == TaskCreate(json)
        task == Task(nextId, task_data, clock, clock)
    IN /\ txn.pc \in {"idle", "done"}
       /\ task_data.valid
       /\ nextId' = nextId + 1
       /\ txn' = [NoTxn EXCEPT !.pc = "flushed", !.op = "POST", !.id = task.id,
                               !.rows = tasks @@ (task.id :> task)]
       /\ UNCHANGED <<wsVars, tasks, clock, last, gone, commitRest>>

\* delete_task up to its broadcast: the task is read, File Service is asked to
\* delete its files, and the row's DELETE is flushed
txn_delete(task_id) ==
    /\ txn.pc \in {"idle", "done"}
    /\ task_id \in DOMAIN tasks
    /\ \E cleanup \in CleanupOutcomes :
         LET r == TaskService_delete_task(tasks, task_id, cleanup)
         IN txn' = [NoTxn EXCEPT !.pc = "flushed", !.op = "DELETE", !.id = task_id,
                                 !.cleanup = r.cleanup, !.rows = r.rows]
    /\ UNCHANGED <<wsVars, tasks, nextId, clock, last, gone, commitRest>>

\* the handler's broadcast_task_created or broadcast_task_deleted; an
\* exception that leaves it leaves the handler
txn_broadcast ==
    /\ txn.pc = "flushed"
    /\ \E order \in Orderings(active_connections) :
       \E outcome \in [active_connections -> ApiSendOutcomes] :
         LET b == IF txn.op = "POST"
                  THEN broadcast_task_created(task_dict(txn.rows[txn.id]), order, outcome)
                  ELSE broadcast_task_deleted(txn.id, order, outcome)
         IN /\ active_connections' = b.active
            /\ connection_ids' = b.ids
            /\ txn' = [txn EXCEPT !.pc = IF b.raised THEN "raised" ELSE "returned",
                                  !.events = <<b.event>>,
                                  !.delivered = {ws \in Range(b.event.to) : outcome[ws] = "ok"}]
    /\ UNCHANGED <<tasks, nextId, clock, last, gone, commitRest>>

\* get_db after the handler returned: session.commit(); when it raises, the
\* rollback, and the request is answered 500
txn_commit(o) ==
    /\ txn.pc = "returned"
    /\ IF o = "ok"
       THEN /\ tasks' = txn.rows
            /\ gone' = IF txn.op = "DELETE" THEN gone \cup {txn.id} ELSE gone
            /\ txn' = [txn EXCEPT !.pc = "done",
                                  !.code = IF txn.op = "POST" THEN 201 ELSE 204]
       ELSE /\ txn' = [txn EXCEPT !.pc = "done", !.code = 500, !.rolled_back = TRUE]
            /\ UNCHANGED <<tasks, gone>>
    /\ UNCHANGED <<wsVars, nextId, clock, last, commitRest>>

\* get_db after the handler raised: rollback, and the request is answered 500
txn_rollback ==
    /\ txn.pc = "raised"
    /\ txn' = [txn EXCEPT !.pc = "done", !.code = 500, !.rolled_back = TRUE]
    /\ UNCHANGED <<wsVars, tasks, nextId, clock, last, gone, commitRest>>

\* ------------------------------------------------------------- File Service
\* Settings.max_file_size_mb, max_file_size_bytes and allowed_extensions; a
\* string is the sequence of its characters
max_file_size_mb == 10
max_file_size_bytes == max_file_size_mb * 1024 * 1024
allowed_extensions ==
    {<<".", "p", "d", "f">>, <<".", "d", "o", "c">>, <<".", "d", "o", "c", "x">>,
     <<".", "t", "x", "t">>, <<".", "j", "p", "g">>, <<".", "j", "p", "e", "g">>,
     <<".", "p", "n", "g">>, <<".", "g", "i", "f">>, <<".", "z", "i", "p">>,
     <<".", "r", "a", "r">>, <<".", "x", "l", "s", "x">>, <<".", "x", "l", "s">>}

boardVars ==
    <<active_connections, connection_ids, bc, tasks, nextId, clock, last, gone, inflight,
      handlers, sessions, laterVars>>

\* str.lower()
ToLower ==
    [A |-> "a", B |-> "b", C |-> "c", D |-> "d", E |-> "e", F |-> "f", G |-> "g",
     H |-> "h", I |-> "i", J |-> "j", K |-> "k", L |-> "l", M |-> "m", N |-> "n",
     O |-> "o", P |-> "p", Q |-> "q", R |-> "r", S |-> "s", T |-> "t", U |-> "u",
     V |-> "v", W |-> "w", X |-> "x", Y |-> "y", Z |-> "z"]
lower(str) ==
    [i \in 1..Len(str) |-> IF str[i] \in DOMAIN ToLower THEN ToLower[str[i]] ELSE str[i]]

\* str.rfind(c), counted from 1; 0 when c does not occur
rfind(str, c) ==
    LET hits == {i \in 1..Len(str) : str[i] = c}
    IN IF hits = {} THEN 0 ELSE CHOOSE i \in hits : \A j \in hits : j <= i

\* os.path.splitext(p)[1]: from the last dot of the last path component, when
\* a character other than a dot precedes it there; else the empty string
splitext(p) ==
    LET sepIndex == rfind(p, "/")
        dotIndex == rfind(p, ".")
    IN IF dotIndex > sepIndex /\ \E k \in (sepIndex + 1)..(dotIndex - 1) : p[k] # "."
       THEN SubSeq(p, dotIndex, Len(p))
       ELSE <<>>

\* a size check that refuses a file of exactly the limit
validate_file_size_strict(size_bytes) == size_bytes < max_file_size_bytes

\* FileService._validate_file_extension, _validate_file_size
validate_file_extension(filename) == lower(splitext(filename)) \in allowed_extensions
validate_file_size(size_bytes) == size_bytes <= max_file_size_bytes

\* the decimal text an f-string puts for an int
DecimalDigits == <<"0", "1", "2", "3", "4", "5", "6", "7", "8", "9">>
RECURSIVE format_int(_)
format_int(n) ==
    IF n < 10 THEN <<DecimalDigits[n + 1]>>
    ELSE format_int(n \div 10) \o <<DecimalDigits[(n % 10) + 1]>>

\* a key made of task id and filename alone
generate_file_key_plain(task_id, filename, unique_id) ==
    <<"tasks", "/">> \o format_int(task_id) \o <<"/">>
    \o [i \in 1..Len(filename) |-> IF filename[i] = " " THEN "_" ELSE filename[i]]

\* S3Service._generate_file_key: f"tasks/{task_id}/{unique_id}_{safe_filename}",
\* unique_id the text of the uuid4 drawn (the uuids are numbered, and the
\* text of one is its number), safe_filename = filename.replace(" ", "_")
generate_file_key(task_id, filename, unique_id) ==
    <<"tasks", "/">> \o format_int(task_id) \o <<"/">> \o format_int(unique_id) \o <<"_">>
    \o [i \in 1..Len(filename) |-> IF filename[i] = " " THEN "_" ELSE filename[i]]

\* the values uuid4 has returned; it returns none of them again
Drawn == {issued[i].unique_id : i \in 1..Len(issued)}

\* how put_object and delete_object can end: the store accepts, answers with
\* an error (ClientError), or cannot be reached (a BotoCoreError)
PutOutcomes == {"ok", "ClientError"}
DeleteOutcomes == {"ok", "ClientError", "ConnectionError"}

NoFileRequest ==
    [op |-> "none", task_id |-> 0, req |-> <<>>, code |-> 0, body |-> NoBody,
     attempted |-> <<>>, removed |-> {}]

NoBulk == [pc |-> "idle", task_id |-> 0, todo |-> <<>>, attempted |-> <<>>, removed |-> {}]

\* File(...) as FileRepository.create stores it
File(id, task_id, filename, file_key, size_bytes, uploaded_at) ==
    [id |-> id, task_id |-> task_id, filename |-> filename, file_key |-> file_key,
     size_bytes |-> size_bytes, uploaded_at |-> uploaded_at]

\* FileResponse.model_validate(file); content_type and uploaded_by, which no
\* route looks at, are left out of the rows
FileResponse(file) ==
    [id |-> file.id, task_id |-> file.task_id, filename |-> file.filename,
     file_key |-> file.file_key, size_bytes |-> file.size_bytes,
     uploaded_at |-> file.uploaded_at]

\* FileUploadResponse(...) as POST /files/upload builds it
FileUploadResponse(file_record, message) ==
    [id |-> file_record.id, task_id |-> file_record.task_id,
     filename |-> file_record.filename, size_bytes |-> file_record.size_bytes,
     uploaded_at |-> file_record.uploaded_at, message |-> message]

\* the answer of a File Service request
FileAnswer(op, task_id, req, code, body, attempted, removed) ==
    flast' = [op |-> op, task_id |-> task_id, req |-> req, code |-> code, body |-> body,
              attempted |-> attempted, removed |-> removed]

\* an upload that creates its record before it writes the object
upload_file_record_first(filename, file_size, task_id) ==
    LET req == [filename |-> filename, size |-> file_size]
    IN /\ IF ~validate_file_extension(filename) \/ ~validate_file_size(file_size)
          THEN /\ FileAnswer("UPLOAD", task_id, req, 400, NoBody, <<>>, {})
               /\ UNCHANGED <<files, fileSeq, objects, issued>>
          ELSE \E unique_id \in (1..MaxFiles) \ Drawn : \E put \in PutOutcomes :
                 LET file_key == generate_file_key(task_id, filename, unique_id)
                     file_record == File(fileSeq, task_id, filename, file_key, file_size, clock)
                 IN /\ issued' = Append(issued, [key |-> file_key, unique_id |-> unique_id,
                                                 task_id |-> task_id, filename |-> filename])
                    /\ files' = files @@ (fileSeq :> file_record)
                    /\ fileSeq' = fileSeq + 1
                    /\ IF put = "ok"
                       THEN /\ objects' = objects \cup {file_key}
                            /\ FileAnswer("UPLOAD", task_id, req, 201,
                                          FileUploadResponse(file_record,
                                                             "File uploaded successfully"),
                                          <<>>, {})
                       ELSE /\ FileAnswer("UPLOAD", task_id, req, 500, NoBody, <<>>, {})
                            /\ UNCHANGED objects
       /\ UNCHANGED <<bulk, boardVars>>

\* POST /files/upload: ValueError of the validation is answered 400, any
\* other exception 500; file_size is len(file_content)
upload_file(filename, file_size, task_id) ==
    LET req == [filename |-> filename, size |-> file_size]
    IN /\ IF ~validate_file_extension(filename) \/ ~validate_file_size(file_size)
          THEN /\ FileAnswer("UPLOAD", task_id, req, 400, NoBody, <<>>, {})
               /\ UNCHANGED <<files, fileSeq, objects, issued>>
          ELSE \E unique_id \in (1..MaxFiles) \ Drawn : \E put \in PutOutcomes :
                 LET file_key == generate_file_key(task_id, filename, unique_id)
                     file_record == File(fileSeq, task_id, filename, file_key, file_size, clock)
                 IN /\ issued' = Append(issued, [key |-> file_key, unique_id |-> unique_id,
                                                 task_id |-> task_id, filename |-> filename])
                    /\ IF put = "ok"
                       THEN /\ objects' = objects \cup {file_key}
                            /\ files' = files @@ (fileSeq :> file_record)
                            /\ fileSeq' = fileSeq + 1
                            /\ FileAnswer("UPLOAD", task_id, req, 201,
                                          FileUploadResponse(file_record,
                                                             "File uploaded successfully"),
                                          <<>>, {})
                       ELSE /\ FileAnswer("UPLOAD", task_id, req, 500, NoBody, <<>>, {})
                            /\ UNCHANGED <<files, fileSeq, objects>>
       /\ UNCHANGED <<bulk, boardVars>>

\* FileRepository.get_by_task_id: the ids of the task's rows, ORDER BY
\* uploaded_at DESC (rows with equal uploaded_at in either order)
get_by_task_id(rows, task_id) ==
    LET ids == {i \in DOMAIN rows : rows[i].task_id = task_id}
    IN {o \in Orderings(ids) :
          \A i, j \in 1..Len(o) : i < j => rows[o[i]].uploaded_at >= rows[o[j]].uploaded_at}

\* GET /files/task/{task_id}
get_files_by_task(task_id) ==
    /\ \E found \in get_by_task_id(files, task_id) :
         FileAnswer("LIST", task_id, <<>>, 200,
                    [files |-> [i \in 1..Len(found) |-> FileResponse(files[found[i]])],
                     total |-> Len(found)], <<>>, {})
    /\ UNCHANGED <<files, fileSeq, objects, issued, bulk, boardVars>>

\* S3Service.delete_file on the bucket st.objects: ClientError is caught and
\* False returned, any other exception leaves the call
S3_delete_file(st, file_key, outcome) ==
    [objects |-> IF outcome = "ok" THEN st.objects \ {file_key} ELSE st.objects,
     attempted |-> Append(st.attempted, file_key),
     raised |-> outcome = "ConnectionError",
     returned |-> IF outcome = "ConnectionError" THEN Null ELSE outcome = "ok"]

\* S3Service.delete_file called by itself on a key
s3_delete_file(file_key) ==
    /\ \E outcome \in DeleteOutcomes :
         LET st == S3_delete_file([objects |-> objects, attempted |-> <<>>, raised |-> FALSE],
                                  file_key, outcome)
         IN /\ objects' = st.objects
            /\ FileAnswer("S3_DELETE", 0, file_key, 0,
                          [outcome |-> outcome, returned |-> st.returned,
                           raised |-> st.raised], st.attempted, {})
    /\ UNCHANGED <<files, fileSeq, issued, bulk, boardVars>>

\* the loop of FileService.delete_files_by_task over the rows found
RECURSIVE DeleteObjects(_, _, _, _)
DeleteObjects(st, rows, todo, outcome) ==
    IF todo = <<>> \/ st.raised THEN st
    ELSE DeleteObjects(S3_delete_file(st, rows[Head(todo)].file_key, outcome[Head(todo)]),
                       rows, Tail(todo), outcome)

\* DELETE /files/task/{task_id}, no other request running between its steps
delete_files_by_task(task_id) ==
    /\ \E found \in get_by_task_id(files, task_id) :
       \E outcome \in [Range(found) -> DeleteOutcomes] :
         LET st == DeleteObjects([objects |-> objects, attempted |-> <<>>, raised |-> FALSE],
                                 files, found, outcome)
         IN /\ objects' = st.objects
            /\ IF st.raised
               THEN /\ FileAnswer("DELETE_TASK", task_id, <<>>, 500, NoBody, st.attempted, {})
                    /\ UNCHANGED files
               ELSE /\ files' = [i \in DOMAIN files \ Range(found) |-> files[i]]
                    /\ FileAnswer("DELETE_TASK", task_id, <<>>, 200,
                                  [task_id |-> task_id, files_deleted |-> Len(found)],
                                  st.attempted, {files[i].file_key : i \in Range(found)})
    /\ UNCHANGED <<fileSeq, issued, bulk, boardVars>>

\* a DeleteFile that removes the row and leaves the object
delete_file_row_only(file_id) ==
    /\ IF file_id \notin DOMAIN files
       THEN /\ FileAnswer("DELETE", 0, file_id, 404, NoBody, <<>>, {})
            /\ UNCHANGED <<files, objects>>
       ELSE /\ files' = [i \in DOMAIN files \ {file_id} |-> files[i]]
            /\ FileAnswer("DELETE", files[file_id].task_id, file_id, 204, NoBody,
                          <<>>, {files[file_id].file_key})
            /\ UNCHANGED objects
    /\ UNCHANGED <<fileSeq, issued, bulk, boardVars>>

\* DELETE /files/{file_id}
delete_file(file_id) ==
    /\ IF file_id \notin DOMAIN files
       THEN /\ FileAnswer("DELETE", 0, file_id, 404, NoBody, <<>>, {})
            /\ UNCHANGED <<files, objects>>
       ELSE \E outcome \in DeleteOutcomes :
              LET st == S3_delete_file([objects |-> objects, attempted |-> <<>>,
                                        raised |-> FALSE], files[file_id].file_key, outcome)
              IN /\ objects' = st.objects
                 /\ IF st.raised
                    THEN /\ FileAnswer("DELETE", files[file_id].task_id, file_id, 500, NoBody,
                                       st.attempted, {})
                         /\ UNCHANGED files
                    ELSE /\ files' = [i \in DOMAIN files \ {file_id} |-> files[i]]
                         /\ FileAnswer("DELETE", files[file_id].task_id, file_id, 204, NoBody,
                                       st.attempted, {files[file_id].file_key})
    /\ UNCHANGED <<fileSeq, issued, bulk, boardVars>>

\* DELETE /files/task/{task_id} followed from await to await. First
\* FileService.delete_files_by_task reads the task's rows
bulk_get_by_task_id(task_id) ==
    /\ bulk.pc = "idle"
    /\ \E found \in get_by_task_id(files, task_id) :
         bulk' = [pc |-> "s3", task_id |-> task_id,
                  todo |-> [i \in 1..Len(found) |-> files[found[i]].file_key],
                  attempted |-> <<>>, removed |-> {}]
    /\ UNCHANGED <<files, fileSeq, objects, issued, flast, boardVars>>

\* one turn of its loop: S3Service.delete_file on the next row read; an
\* exception that leaves it ends the request with 500
bulk_delete_object ==
    /\ bulk.pc = "s3"
    /\ bulk.todo # <<>>
    /\ \E outcome \in DeleteOutcomes :
         LET st == S3_delete_file([objects |-> objects, attempted |-> bulk.attempted,
                                   raised |-> FALSE], Head(bulk.todo), outcome)
         IN /\ objects' = st.objects
            /\ IF st.raised
               THEN /\ FileAnswer("DELETE_TASK", bulk.task_id, <<>>, 500, NoBody,
                                  st.attempted, {})
                    /\ bulk' = NoBulk
               ELSE /\ bulk' = [bulk EXCEPT !.todo = Tail(@), !.attempted = st.attempted]
                    /\ UNCHANGED flast
    /\ UNCHANGED <<files, fileSeq, issued, boardVars>>

\* FileRepository.delete_by_task_id reads the task's rows again, as they are
\* now, deletes them and returns their number; the route answers with it and
\* the session commits
bulk_delete_by_task_id ==
    /\ bulk.pc = "s3"
    /\ bulk.todo = <<>>
    /\ \E found \in get_by_task_id(files, bulk.task_id) :
         /\ files' = [i \in DOMAIN files \ Range(found) |-> files[i]]
         /\ FileAnswer("DELETE_TASK", bulk.task_id, <<>>, 200,
                       [task_id |-> bulk.task_id, files_deleted |-> Len(found)],
                       bulk.attempted, {files[i].file_key : i \in Range(found)})
    /\ bulk' = NoBulk
    /\ UNCHANGED <<fileSeq, objects, issued, boardVars>>

\* ------------------------------------------------------------- the requests made
\* the ids requests name: an id not handed out yet, or deleted, names no task
TaskIds == 1..MaxTasks

Init ==
    /\ active_connections = {}
    /\ connection_ids = <<>>
    /\ bc = NoBroadcast
    /\ tasks = <<>>
    /\ nextId = 1
    /\ clock = 0
    /\ last = NoRequest
    /\ gone = {}
    /\ inflight = [r \in Requests |-> NoPatch]
    /\ handlers = [ws \in Conns |-> NoHandler]
    /\ sessions = [q \in SessionIds |-> NoSession]
    /\ files = <<>>
    /\ fileSeq = 1
    /\ objects = {}
    /\ issued = <<>>
    /\ flast = NoFileRequest
    /\ bulk = NoBulk
    /\ pm = NoPersonal
    /\ txn = NoTxn

\* Spec: the five mutating routes and GET /tasks/{id} with two notification
\* clients, the clock standing still
CreateBodies == [title : {"t1", ""}, description : {Absent}, status : {"done", Absent}]
UpdateBodies ==
    {[title |-> Absent, description |-> Absent, status |-> "in_progress"],
     [title |-> Absent, description |-> Absent, status |-> Absent]}
StatusBodies == [status : Statuses]

Next ==
    \/ \E json \in CreateBodies : nextId <= MaxTasks /\ create_task(json, clock) /\ UNCHANGED restVars
    \/ \E task_id \in TaskIds : get_task(task_id) /\ UNCHANGED restVars
    \/ \E task_id \in TaskIds, json \in UpdateBodies : update_task(task_id, json, clock) /\ UNCHANGED restVars
    \/ \E task_id \in TaskIds, json \in StatusBodies : update_task_status(task_id, json, clock) /\ UNCHANGED restVars
    \/ \E task_id \in TaskIds : delete_task(task_id) /\ UNCHANGED restVars
    \/ \E ws \in Conns : websocket_endpoint_connect(ws) /\ UNCHANGED restVars
    \/ \E ws \in Conns : websocket_endpoint_disconnect(ws) /\ UNCHANGED restVars

Spec == Init /\ [][Next]_vars

\* SpecPut: POST and PUT with every combination of absent, null and given
\* fields, one notification client, the clock standing still
PutCreateBodies == [title : {"t1"}, description : {Null, "d1"}, status : {Absent}]
PutUpdateBodies ==
    [title : {Absent, "t2"}, description : {Absent, Null, "", "d1"},
     status : {Absent, "done"}]
    \cup {[title |-> "", description |-> Absent, status |-> Absent],
          [title |-> Null, description |-> Absent, status |-> Null]}

NextPut ==
    \/ \E json \in PutCreateBodies : nextId <= MaxTasks /\ create_task(json, clock) /\ UNCHANGED restVars
    \/ \E task_id \in TaskIds, json \in PutUpdateBodies : update_task(task_id, json, clock) /\ UNCHANGED restVars
    \/ websocket_endpoint_connect("w1") /\ UNCHANGED restVars
    \/ websocket_endpoint_disconnect("w1") /\ UNCHANGED restVars

SpecPut == Init /\ [][NextPut]_vars

\* SpecList: GET /tasks over the tables POST and DELETE produce, the clock
\* running, no notification client
ListCreateBodies == [title : {"t1"}, description : {Absent}, status : {"done", Absent}]
ListStatuses == {Null, "todo", "done"}

NextList ==
    \/ \E json \in ListCreateBodies : nextId <= MaxListed /\ create_task(json, MaxClock) /\ UNCHANGED restVars
    \/ \E task_id \in 1..MaxListed : delete_task(task_id) /\ UNCHANGED restVars
    \/ \E status \in ListStatuses, skip \in 0..MaxListed, limit \in 1..MaxListed :
         get_tasks(status, skip, limit) /\ UNCHANGED restVars

SpecList == Init /\ [][NextList]_vars

\* SpecPatch: two PATCH requests followed from await to await, while POST and
\* DELETE requests run between their steps; one notification client, the
\* clock standing still
PatchCreateBodies == [title : {"t1"}, description : {Absent}, status : {Absent}]

NextPatch ==
    \/ \E json \in PatchCreateBodies :
         nextId <= MaxPatched /\ create_task(json, clock) /\ UNCHANGED restVars
    \/ \E task_id \in 1..MaxPatched :
         ~Locked(task_id) /\ delete_task(task_id) /\ UNCHANGED restVars
    \/ websocket_endpoint_connect("w1") /\ UNCHANGED restVars
    \/ \E r \in Requests, task_id \in 1..MaxPatched, json \in StatusBodies :
         patch_get_task(r, task_id, json)
    \/ \E r \in Requests : patch_get_by_id(r)
    \/ \E r \in Requests : patch_update(r)
    \/ \E r \in Requests : patch_broadcast(r)
    \/ \E r \in Requests : patch_return(r)

SpecPatch == Init /\ [][NextPatch]_vars

\* SpecEndpoint: the /ws handlers of two clients, each with a client id of
\* its choice or a generated one, while broadcasts run
NextEndpoint ==
    \/ \E ws \in Conns : \E client_id \in ClientIds \cup {ws} :
         endpoint_connect(ws, client_id)
    \/ \E ws \in Conns : endpoint_welcome(ws)
    \/ \E ws \in Conns : endpoint_receive(ws)
    \/ \E ws \in Conns : endpoint_pong(ws)
    \/ broadcast_begin /\ UNCHANGED <<apiVars, restVars>>
    \/ broadcast_send /\ UNCHANGED <<apiVars, restVars>>
    \/ broadcast_end /\ UNCHANGED <<apiVars, restVars>>

SpecEndpoint == Init /\ [][NextEndpoint]_vars

\* SpecSession: the sessions of three requests handled at once
NextSession ==
    \/ \E q \in SessionIds : get_db_enter(q)
    \/ \E q \in SessionIds : get_db_resume(q)
    \/ \E q \in SessionIds : get_db_commit(q)
    \/ \E q \in SessionIds : get_db_except(q)
    \/ \E q \in SessionIds : get_db_finally(q)

SpecSession == Init /\ [][NextSession]_vars

\* SpecUpload: uploads of every kind of filename and size
Filenames ==
    {<<"a", ".", "p", "d", "f">>, <<"a", ".", "P", "D", "F">>,
     <<"a", " ", "b", ".", "t", "x", "t">>, <<"a", ".", "e", "x", "e">>,
     <<".", "p", "d", "f">>, <<"a", "b">>}
FileSizes == {1, max_file_size_bytes, max_file_size_bytes + 1}

NextUpload ==
    \/ \E filename \in Filenames, file_size \in FileSizes :
         Len(issued) < MaxFiles /\ upload_file(filename, file_size, 1)
    \/ \E file_id \in 1..MaxFiles : delete_file(file_id)

SpecUpload == Init /\ [][NextUpload]_vars

\* SpecFiles: File Service handling one request at a time; the two filenames
\* have the same safe_filename
SameSafeFilenames ==
    {<<"a", " ", "b", ".", "t", "x", "t">>, <<"a", "_", "b", ".", "t", "x", "t">>}

NextFiles ==
    \/ \E filename \in SameSafeFilenames, task_id \in TaskIds :
         Len(issued) < MaxFiles /\ upload_file(filename, 1, task_id)
    \/ \E task_id \in TaskIds : get_files_by_task(task_id)
    \/ \E task_id \in TaskIds : delete_files_by_task(task_id)
    \/ \E file_id \in 1..MaxFiles : delete_file(file_id)

SpecFiles == Init /\ [][NextFiles]_vars

\* SpecStore: S3Service.delete_file called on the keys uploads were given and
\* on a key no upload was given
StoreKeys == {issued[i].key : i \in 1..Len(issued)} \cup {<<"tasks", "/", "0">>}

NextStore ==
    \/ \E filename \in Filenames, file_size \in FileSizes :
         Len(issued) < MaxFiles /\ upload_file(filename, file_size, 1)
    \/ \E file_key \in StoreKeys : s3_delete_file(file_key)

SpecStore == Init /\ [][NextStore]_vars

\* SpecBulk: one DELETE /files/task/{t} followed step by step while uploads
\* and listings are handled between its steps
NextBulk ==
    \/ \E filename \in SameSafeFilenames, task_id \in TaskIds :
         Len(issued) < MaxFiles /\ upload_file(filename, 1, task_id)
    \/ \E task_id \in TaskIds : get_files_by_task(task_id)
    \/ \E task_id \in TaskIds : bulk_get_by_task_id(task_id)
    \/ bulk_delete_object
    \/ bulk_delete_by_task_id

SpecBulk == Init /\ [][NextBulk]_vars

InitWS == Init

\* SpecLock: the manager called directly, with the lock that connect,
\* disconnect and the cleanup of broadcast take
NextLock ==
    \/ \E ws \in Conns, cid \in ClientIds :
         locked_connect(ws, cid) /\ UNCHANGED <<apiVars, restVars>>
    \/ \E ws \in Conns, cid \in ClientIds :
         locked_disconnect(ws, cid) /\ UNCHANGED <<apiVars, restVars>>
    \/ broadcast_begin /\ UNCHANGED <<apiVars, restVars>>
    \/ broadcast_send /\ UNCHANGED <<apiVars, restVars>>
    \/ broadcast_acquire /\ UNCHANGED <<apiVars, restVars>>
    \/ broadcast_purge /\ UNCHANGED <<apiVars, restVars>>

SpecLock == Init /\ [][NextLock]_vars

\* SpecCommit: one POST or DELETE request followed to its commit, with one
\* notification client and GET /tasks/{id} asked between its steps
NextCommit ==
    \/ \E json \in PatchCreateBodies : nextId <= MaxTasks /\ txn_create(json)
    \/ \E task_id \in TaskIds : txn_delete(task_id)
    \/ txn_broadcast
    \/ \E o \in CommitOutcomes : txn_commit(o)
    \/ txn_rollback
    \/ \E task_id \in TaskIds : get_task(task_id) /\ UNCHANGED restVars
    \/ websocket_endpoint_connect("w1") /\ UNCHANGED restVars

SpecCommit == Init /\ [][NextCommit]_vars

\* SpecPersonal: send_personal_message followed over its await while connect
\* and disconnect are called
personalRest == <<bc, apiVars, inflight, handlers, sessions, fileVars, txn>>

NextPersonal ==
    \/ \E ws \in Conns, cid \in ClientIds : connect(ws, cid) /\ UNCHANGED <<pm, personalRest>>
    \/ \E ws \in Conns, cid \in ClientIds : disconnect(ws, cid) /\ UNCHANGED <<pm, personalRest>>
    \/ \E client_id \in ClientIds : personal_get(client_id) /\ UNCHANGED personalRest
    \/ personal_send /\ UNCHANGED personalRest

SpecPersonal == Init /\ [][NextPersonal]_vars

\* ------------------------------------------------------------- the manager called directly
NextWS ==
    \/ \E ws \in Conns, cid \in ClientIds : connect(ws, cid) /\ UNCHANGED <<bc, apiVars>> /\ UNCHANGED restVars
    \/ \E ws \in Conns, cid \in ClientIds : disconnect(ws, cid) /\ UNCHANGED <<bc, apiVars>> /\ UNCHANGED restVars
    \/ broadcast_begin /\ UNCHANGED apiVars /\ UNCHANGED restVars
    \/ broadcast_send /\ UNCHANGED apiVars /\ UNCHANGED restVars
    \/ broadcast_end /\ UNCHANGED apiVars /\ UNCHANGED restVars

SpecWS == InitWS /\ [][NextWS]_vars

\* ------------------------------------------------------------- claims

\* C1: after any sequence of connect and disconnect calls every connection in
\* active_connections is the value of exactly one entry of connection_ids,
\* every value of connection_ids is in active_connections, and
\* connection_count is the size of active_connections.
C1_Registered ==
    /\ \A c \in active_connections :
         Cardinality({i \in 1..Len(connection_ids) : connection_ids[i].ws = c}) = 1
    /\ DictValues(connection_ids) \subseteq active_connections
    /\ connection_count = Cardinality(active_connections)

\* C2: broadcast never raises to its caller, and every connection of its
\* snapshot is attempted whatever deliveries fail.
C2_BroadcastNeverRaises ==
    /\ bc.pc # "raised"
    /\ bc.pc = "returned" => {a.ws : a \in Range(bc.attempted)} = bc.snapshot

\* ------------------------------------------------------------- claims on the Task API
Min(a, b) == IF a < b THEN a ELSE b
Max(a, b) == IF a > b THEN a ELSE b

\* C3: DELETE /tasks/{id} on an existing task is answered 204 and removes the
\* row whatever the file-cleanup call does, so that a later GET answers 404.
C3_DeleteSurvivesCleanup ==
    [][\A id \in TaskIds :
         (last'.op = "DELETE" /\ last'.id = id /\ id \in DOMAIN tasks)
         => (last'.code = 204 /\ id \notin DOMAIN tasks')]_vars

\* C4: once DELETE /tasks/{id} was answered 204 every GET /tasks/{id} answers
\* 404; DELETE of an id that names no task answers 404, leaves the stored
\* tasks as they are, calls File Service not at all and broadcasts nothing.
C4_DeletionFinal ==
    /\ [](last.op = "GET" /\ last.id \in gone => last.code = 404)
    /\ [][\A id \in TaskIds :
            (last'.op = "DELETE" /\ last'.id = id /\ id \notin DOMAIN tasks)
            => /\ last'.code = 404
               /\ tasks' = tasks
               /\ last'.cleanup = "none"
               /\ last'.events = <<>>]_vars

C4_Witness ==
    /\ last.op = "DELETE" /\ last.code = 404 /\ last.id \in gone
    /\ tasks # <<>>

C6_NullOverwrites ==
    [][\A id \in TaskIds :
         (last'.op = "PUT" /\ last'.id = id /\ last'.code = 200)
         => LET d == last'.req.description
            IN /\ d = Absent => tasks'[id].description = tasks[id].description
               /\ d # Absent => tasks'[id].description = d]_vars

\* C6, amended: in a PUT answered 200 a description that is the empty string
\* becomes the stored description; a description that is null leaves the
\* stored description as it was, as an absent key does.
C6_EmptyOverwritesNullKeeps ==
    [][\A id \in TaskIds :
         (last'.op = "PUT" /\ last'.id = id /\ last'.code = 200)
         => LET d == last'.req.description
            IN /\ d \in {Absent, Null} => tasks'[id].description = tasks[id].description
               /\ d = "" => tasks'[id].description = ""]_vars

C6_Witness ==
    /\ last.op = "PUT" /\ last.code = 200
    /\ last.req.description = Null
    /\ tasks[last.id].description = "d1"

\* C7: PATCH /tasks/{id}/status on an existing task is answered 200 for every
\* pair of old and new status, the stored status is the new one, and title
\* and description are as before.
C7_AnyTransition ==
    [][\A id \in TaskIds :
         (last'.op = "PATCH" /\ last'.id = id /\ id \in DOMAIN tasks)
         => /\ last'.code = 200
            /\ tasks'[id].status = last'.req.status
            /\ tasks'[id].title = tasks[id].title
            /\ tasks'[id].description = tasks[id].description]_vars

\* C8: a valid POST /tasks is answered 201 and stores a task with the title,
\* description (null when omitted) and status (todo when omitted) of the
\* request, and with created_at <= updated_at.
C8_CreateRoundTrip ==
    [][(last'.op = "POST" /\ TaskCreate(last'.req).valid)
       => /\ last'.code = 201
          /\ last'.id \in DOMAIN tasks'
          /\ LET t == tasks'[last'.id]
                 req == last'.req
             IN /\ t.title = req.title
                /\ t.description = (IF req.description = Absent THEN Null ELSE req.description)
                /\ t.status = (IF req.status = Absent THEN "todo" ELSE req.status)
                /\ t.created_at <= t.updated_at]_vars

C8_Witness ==
    /\ last.op = "POST" /\ last.code = 201
    /\ last.req.status = Absent
    /\ tasks[last.id].status = "todo"

\* C9: GET /tasks?status=s&skip=k&limit=n answers the tasks at positions
\* k+1 .. k+n of the stored tasks with status s (all when s is omitted) in
\* created_at descending order: min(n, max(0, m - k)) tasks, each a stored
\* matching task, none twice, newest first, the i-th of them preceded by
\* k+i-1 matching tasks; total is m, the number of matching tasks.
C9_Listing ==
    last.op = "LIST" =>
      LET q == last.req
          items == last.body.tasks
          matching == {i \in DOMAIN tasks : q.status = Null \/ tasks[i].status = q.status}
          m == Cardinality(matching)
          newer(t) == Cardinality({x \in matching : tasks[x].created_at > t})
          notOlder(t) == Cardinality({x \in matching : tasks[x].created_at >= t})
      IN /\ Len(items) = Min(q.limit, Max(0, m - q.skip))
         /\ \A i \in 1..Len(items) :
              /\ items[i].id \in matching
              /\ items[i] = TaskResponse(tasks[items[i].id])
              /\ newer(items[i].created_at) <= q.skip + i - 1
              /\ notOlder(items[i].created_at) >= q.skip + i
         /\ \A i, j \in 1..Len(items) :
              /\ i # j => items[i].id # items[j].id
              /\ i < j => items[i].created_at >= items[j].created_at
         /\ last.body.total = m

C9_Witness ==
    /\ last.op = "LIST"
    /\ last.req = [status |-> "todo", skip |-> 1, limit |-> 1]
    /\ Len(last.body.tasks) = 1
    /\ last.body.total = 2
    /\ \E i \in DOMAIN tasks : tasks[i].status = "done"
    /\ \E i, j \in DOMAIN tasks : tasks[i].created_at < tasks[j].created_at

\* C10: a POST, PUT, PATCH or DELETE answered 201, 200 or 204 makes exactly
\* one broadcast, of task_created, task_updated, task_status_changed or
\* task_deleted (payload {task_id}) respectively, and sends it once to every
\* connection registered when the request is handled; one answered 404 makes
\* no broadcast.
EventType(op) ==
    CASE op = "POST" -> "task_created"
      [] op = "PUT" -> "task_updated"
      [] op = "PATCH" -> "task_status_changed"
      [] op = "DELETE" -> "task_deleted"

C10_OneEventPerMutation ==
    [][last'.op \in {"POST", "PUT", "PATCH", "DELETE"}
       => /\ last'.code \in {200, 201, 204}
             => /\ Len(last'.events) = 1
                /\ last'.events[1].message.type = EventType(last'.op)
                /\ last'.op = "DELETE"
                     => last'.events[1].message.data = [task_id |-> last'.id]
                /\ Len(last'.events[1].to) = Cardinality(active_connections)
                /\ Range(last'.events[1].to) = active_connections
          /\ last'.code = 404 => last'.events = <<>>]_vars

C10_Witness ==
    /\ last.op = "DELETE" /\ last.code = 204
    /\ Len(last.events) = 1
    /\ Len(last.events[1].to) = 2

\* C11: the task_status_changed event of a PATCH answered 200 carries as
\* old_status the status the row had when this request's update was applied
\* to it, and as new_status the requested status, whatever other PATCH
\* requests for the task are in flight.
C11_EventOldStatus ==
    [][\A r \in Requests :
         (inflight[r].pc = "return" /\ inflight'[r].pc = "idle" /\ last'.code = 200)
         => /\ Len(last'.events) = 1
            /\ last'.events[1].message.data.old_status = inflight[r].before
            /\ last'.events[1].message.data.new_status = last'.req.status]_vars

\* C12: a PATCH is answered 200 with the task in the requested status, or
\* 404, whatever requests on the same task run between its steps, and one
\* that is not answered 200 has broadcast nothing.
C12_PatchAnswers ==
    [][\A r \in Requests :
         (inflight[r].pc # "idle" /\ inflight'[r].pc = "idle")
         => /\ last'.code \in {200, 404}
            /\ last'.code = 200 => /\ last'.body.id = last'.id
                                   /\ last'.body.status = last'.req.status
            /\ last'.code # 200 => last'.events = <<>>]_vars

\* C19: broadcast leaves the caller's dictionary with a timestamp key: one
\* it adds when there was none, the one there was otherwise; every other key
\* keeps its value and no other key appears, registered connections or not.
C19_Timestamp ==
    bc.pc # "idle" =>
      /\ DOMAIN bc.message = DOMAIN bc.given \cup {"timestamp"}
      /\ \A k \in DOMAIN bc.given : bc.message[k] = bc.given[k]
      /\ "timestamp" \notin DOMAIN bc.given => bc.message["timestamp"] = isoformat(clock)

C19_Witness ==
    /\ bc.pc = "returned"
    /\ bc.snapshot = {}
    /\ "timestamp" \notin DOMAIN bc.given
    /\ "timestamp" \in DOMAIN bc.message

\* C18: when the /ws handler of a connection ends, on a close by the client
\* or on any other exception raised after registration, the connection is in
\* neither active_connections nor connection_ids, and the handler returned:
\* the exception did not leave it.
C18_HandlerEndDeregisters ==
    [][\A ws \in Conns :
         (handlers[ws].pc # "ended" /\ handlers'[ws].pc = "ended")
         => /\ ws \notin active_connections'
            /\ ws \notin DictValues(connection_ids')
            /\ ~handlers'[ws].propagated]_vars

C18_Witness ==
    /\ handlers["w1"].pc = "ended"
    /\ handlers["w2"].pc = "receive"
    /\ handlers["w1"].client_id = handlers["w2"].client_id
    /\ "w2" \in active_connections

\* C20: when broadcast returns, a connection whose send failed is in neither
\* active_connections nor connection_ids, and one whose send succeeded is in
\* the set and under the client ids it had when the broadcast began, unless
\* a disconnect call made meanwhile named it or its client id.
C20_PurgeOnlyFailed ==
    [][(bc.pc = "sending" /\ bc'.pc = "returned")
       => \A a \in Range(bc.attempted) :
            IF a.outcome # "ok"
            THEN /\ a.ws \notin active_connections'
                 /\ a.ws \notin DictValues(connection_ids')
            ELSE \/ a.ws \in bc.removed
                 \/ /\ a.ws \in active_connections'
                    /\ Entries(connection_ids', a.ws) = Entries(bc.before.ids, a.ws)]_vars

\* C17: a session got from get_db ends in one way: committed and not rolled
\* back when the handler and the commit ended normally; rolled back, not
\* committed and the exception raised again when the handler or the commit
\* raised an Exception; and closed in every case, so that a request that
\* ended holds no open session. A session is never both committed and
\* rolled back.
C17_SessionEndsOneWay ==
    \A q \in SessionIds :
      /\ ~(sessions[q].committed /\ sessions[q].rolled_back)
      /\ sessions[q].pc = "ended" =>
           /\ ~sessions[q].open
           /\ sessions[q].propagated = sessions[q].error
           /\ sessions[q].error = Null
                => sessions[q].committed /\ ~sessions[q].rolled_back
           /\ sessions[q].error = "Exception"
                => sessions[q].rolled_back /\ ~sessions[q].committed
           /\ sessions[q].error = "CancelledError" => ~sessions[q].committed

C17_Witness ==
    /\ sessions["s1"].pc = "ended" /\ sessions["s1"].committed
    /\ sessions["s2"].pc = "ended" /\ sessions["s2"].rolled_back
    /\ sessions["s2"].propagated = "Exception"
    /\ sessions["s3"].pc = "yielded" /\ sessions["s3"].open

\* ------------------------------------------------------------- claims on File Service

\* C13: an upload whose filename extension, lower-cased, is not in the
\* allow-list, or whose byte length is greater than max_file_size_mb * 1048576,
\* is answered 400, writes nothing to the object store and creates no
\* metadata record; an upload with an allowed extension and a byte length
\* less than or equal to that limit is not rejected by the validation.
C13_UploadValidation ==
    [][flast'.op = "UPLOAD" =>
         LET filename == flast'.req.filename
             size == flast'.req.size
             allowed == lower(splitext(filename)) \in allowed_extensions
             fits == size <= max_file_size_mb * 1048576
         IN /\ ~allowed \/ ~fits =>
                 /\ flast'.code = 400
                 /\ objects' = objects
                 /\ files' = files
                 /\ issued' = issued
            /\ allowed /\ fits => flast'.code # 400]_vars

C13_Witness ==
    /\ flast.op = "UPLOAD"
    /\ flast.req.filename = <<"a", ".", "P", "D", "F">>
    /\ flast.req.size = max_file_size_bytes
    /\ flast.code = 201
    /\ \E i \in DOMAIN files : files[i].size_bytes = max_file_size_bytes

\* C14: across any sequence of uploads and deletions no two uploads receive
\* the same file_key, also when filename and task id are the same and after
\* the record of an earlier upload has been deleted; each key has the form
\* tasks/{task_id}/{uuid}_{filename with spaces replaced by underscores}.
C14_KeysNeverReused ==
    /\ \A i, j \in 1..Len(issued) : i # j => issued[i].key # issued[j].key
    /\ \A i \in 1..Len(issued) :
         LET filename == issued[i].filename
             head == <<"tasks", "/">> \o format_int(issued[i].task_id) \o <<"/">>
                     \o format_int(issued[i].unique_id) \o <<"_">>
             key == issued[i].key
         IN /\ Len(key) = Len(head) + Len(filename)
            /\ SubSeq(key, 1, Len(head)) = head
            /\ \A k \in 1..Len(filename) :
                 key[Len(head) + k] = (IF filename[k] = " " THEN "_" ELSE filename[k])

C14_Witness ==
    /\ Len(issued) = 2
    /\ issued[1].task_id = issued[2].task_id
    /\ issued[1].filename = issued[2].filename
    /\ \E k \in 1..Len(issued[1].filename) : issued[1].filename[k] = " "
    /\ \A i \in DOMAIN files : files[i].file_key # issued[1].key
    /\ \E i \in DOMAIN files : files[i].file_key = issued[2].key

\* C15: DELETE /files/task/{t} is answered 200 with files_deleted equal to the
\* number of metadata records that had task_id = t (0 when there are none);
\* afterwards the task has no records, so that GET /files/task/{t} returns an
\* empty list with total = 0, and the records of every other task id are
\* unchanged.
C15_BulkDeleteAnswer ==
    [][flast'.op = "DELETE_TASK" =>
         LET t == flast'.task_id
             mine == {i \in DOMAIN files : files[i].task_id = t}
         IN /\ flast'.code = 200
            /\ flast'.body = [task_id |-> t, files_deleted |-> Cardinality(mine)]
            /\ get_by_task_id(files', t) = {<<>>}
            /\ DOMAIN files' = DOMAIN files \ mine
            /\ \A i \in DOMAIN files' : files'[i] = files[i]]_vars

\* C16: in the bulk deletion of a task's files the number of object-store
\* deletions attempted equals the number of metadata rows removed, which is
\* the count returned, and the file_key of every removed row is among the
\* keys whose deletion was attempted, also when uploads for the task are
\* committed while the bulk deletion is in progress.
C16_AttemptedAreRemoved ==
    flast.op = "DELETE_TASK" /\ flast.code = 200 =>
      /\ Len(flast.attempted) = flast.body.files_deleted
      /\ Cardinality(flast.removed) = flast.body.files_deleted
      /\ flast.removed \subseteq Range(flast.attempted)

\* ------------------------------------------------------------- claims of the third group

\* C21: send_personal_message returns true only if the message was delivered
\* to the connection mapped to the client id; if the client id is not in the
\* mapping it returns false without raising and changes nothing; if the
\* delivery fails it removes that connection from both structures and
\* returns false.
C21_PersonalMessage ==
    [][pm' # pm =>
         /\ pm'.pc # "raised"
         /\ pm'.pc = "returned" =>
              /\ pm'.result =>
                   /\ pm'.outcome = "ok"
                   /\ pm'.websocket = DictGet(pm'.before.ids, pm'.client_id)
              /\ pm'.client_id \notin DictKeys(pm'.before.ids) =>
                   /\ ~pm'.result
                   /\ UNCHANGED wsVars
              /\ pm'.outcome \notin {"ok", "none"} =>
                   /\ ~pm'.result
                   /\ pm'.websocket \notin active_connections'
                   /\ pm'.websocket \notin DictValues(connection_ids')]_vars

\* C27: a connection's own deregistration never unregisters another live
\* connection: a connection c registered under client id x is mapped from x
\* when it registers, and stays so for as long as it is open and no later
\* connection registers under x, whatever other connections disconnect or
\* are purged by a broadcast in the meantime; send_personal_message to x
\* then reaches c.
C27_OwnDeregistrationOnly ==
    [][\A c \in Conns :
         LET x == handlers'[c].client_id
             open == {"welcome", "receive", "pong"}
             newer == \E d \in Conns \ {c} :
                        /\ handlers[d].pc = "none"
                        /\ handlers'[d].pc # "none"
                        /\ handlers'[d].client_id = x
         IN /\ (handlers[c].pc = "none" /\ handlers'[c].pc \in open)
               => DictGet(connection_ids', x) = c
            /\ (/\ handlers[c].pc \in open
                /\ handlers'[c].pc \in open
                /\ DictGet(connection_ids, x) = c
                /\ c \notin Range(bc.disconnected)
                /\ ~newer)
               => DictGet(connection_ids', x) = c]_vars

\* C26: a task event is delivered to clients only for a change that is
\* committed: if the request's session is rolled back because the commit or
\* the handler fails, no event of that request has been broadcast, and a
\* client that asks GET /tasks/{id} on receiving the event sees the state the
\* event reports.
C26_EventsOnlyCommitted ==
    /\ txn.rolled_back => txn.events = <<>>
    /\ txn.delivered # {} =>
         IF txn.op = "POST" THEN txn.id \in DOMAIN tasks ELSE txn.id \notin DOMAIN tasks

\* C28: in every execution of DELETE /tasks/{id} in which the File Service
\* call removed the task's files the task row ends up deleted: the files of a
\* task that still exists afterwards are never removed by Board Service.
C28_CleanupOnlyWithDeletion ==
    txn.pc = "done" /\ txn.op = "DELETE" /\ txn.cleanup = "ok" => txn.id \notin DOMAIN tasks

\* C24: S3Service.delete_file never propagates a storage-level error: for
\* every failure of the delete operation (an error response of the store, a
\* connection failure, a timeout) it returns false, and it returns true
\* exactly when the store accepted the deletion.
C24_DeleteNeverPropagates ==
    flast.op = "S3_DELETE" =>
      /\ ~flast.body.raised
      /\ flast.body.returned = (flast.body.outcome = "ok")

\* C23: DeleteFile on an existing record attempts the object-store deletion
\* of its key and then deletes the metadata row, and it removes the row and
\* reports success whether the object-store deletion succeeded or failed; on
\* a missing record it reports failure (404) and attempts no object-store
\* deletion.
C23_DeleteFile ==
    [][flast'.op = "DELETE" =>
         LET file_id == flast'.req
         IN IF file_id \in DOMAIN files
            THEN /\ flast'.attempted = <<files[file_id].file_key>>
                 /\ flast'.code = 204
                 /\ DOMAIN files' = DOMAIN files \ {file_id}
            ELSE /\ flast'.code = 404
                 /\ flast'.attempted = <<>>
                 /\ UNCHANGED <<files, objects>>]_vars

\* C25: a File record is created only after the object-store write of the
\* same upload has succeeded, and it carries the key that write returned and
\* the byte length measured from the uploaded content; if the object-store
\* write fails no record is created and the request is answered 500.
C25_RecordAfterWrite ==
    [][flast'.op = "UPLOAD" =>
         LET created == DOMAIN files' \ DOMAIN files
             written == Len(issued') > Len(issued)
                        /\ issued'[Len(issued')].key \in objects' \ objects
         IN /\ \A i \in created :
                 /\ written
                 /\ files'[i].file_key = issued'[Len(issued')].key
                 /\ files'[i].size_bytes = flast'.req.size
                 /\ flast'.code = 201
            /\ flast'.code = 201 => Cardinality(created) = 1
            /\ (Len(issued') > Len(issued) /\ ~written) =>
                 /\ created = {}
                 /\ flast'.code = 500]_vars

C25_Witness ==
    /\ flast.op = "UPLOAD" /\ flast.code = 201
    /\ Len(issued) = 2
    /\ DOMAIN files = {1}
    /\ issued[1].key \notin objects
    /\ files[1].file_key = issued[2].key
    /\ files[1].file_key \in objects
    /\ files[1].size_bytes = flast.req.size

\* C30: when requests are executed one at a time and no object-store or
\* database operation fails, after any sequence of upload, DeleteFile and
\* DeleteFilesByTask requests the keys of the objects in the store are the
\* file_key values of the metadata records: no orphan object and no record
\* without an object. It holds at the start, and every request in which no
\* operation fails keeps it (a request failed when it was answered 500 or a
\* key whose deletion it attempted is still in the store).
C30_StoreMatchesRecords ==
    [][(/\ objects = {files[i].file_key : i \in DOMAIN files}
        /\ flast'.code # 500
        /\ \A k \in Range(flast'.attempted) : k \notin objects')
       => objects' = {files'[i].file_key : i \in DOMAIN files'}]_vars

C30_Witness ==
    /\ Len(issued) = 2
    /\ Cardinality(objects) = 1
    /\ objects = {files[i].file_key : i \in DOMAIN files}
    /\ flast.op = "DELETE_TASK" /\ flast.code = 200
    /\ flast.removed # {}
    /\ flast.removed = Range(flast.attempted)
    /\ flast.removed \cap objects = {}

\* C22: a connect or disconnect issued while a broadcast is suspended in its
\* delivery phase completes without waiting for that broadcast: broadcast
\* holds the lock only during its cleanup pass, and a connection registered
\* after the broadcast took its snapshot is not sent that message.
C22_LockOnlyForCleanup ==
    /\ broadcast_lock(bc) # Null => bc.pc = "purging"
    /\ bc.pc = "sending" =>
         \A ws \in Conns, cid \in ClientIds :
           /\ ENABLED (locked_connect(ws, cid) /\ UNCHANGED <<apiVars, restVars>>)
           /\ ENABLED (locked_disconnect(ws, cid) /\ UNCHANGED <<apiVars, restVars>>)
    /\ \A i \in 1..Len(bc.attempted) : bc.attempted[i].ws \in bc.snapshot

C22_Witness ==
    /\ bc.pc = "sending"
    /\ bc.todo # <<>>
    /\ bc.snapshot # {}
    /\ active_connections \ bc.snapshot # {}
    /\ bc.snapshot \ active_connections # {}

\* C29: every connection that is registered when a broadcast takes its
\* snapshot and whose transport does not fail is sent that message exactly
\* once, also when other connections connect, disconnect or fail during the
\* delivery phase; no connection is sent the same broadcast twice.
C29_ExactlyOnce ==
    /\ \A i, j \in 1..Len(bc.attempted) : bc.attempted[i].ws = bc.attempted[j].ws => i = j
    /\ bc.pc \in {"returned", "raised"} =>
         \A ws \in bc.snapshot :
           Cardinality({i \in 1..Len(bc.attempted) : bc.attempted[i].ws = ws}) = 1

====
